---- MODULE Spec2Model ----
(***************************************************************************)
(* Model of the luckybox server (src/__main__.py, src/models/user.py).     *)
(*                                                                         *)
(* The program is an asyncio application: every coroutine runs without     *)
(* interruption between two awaits, and any other coroutine may run at     *)
(* an await.  The only shared state is the table of User rows, so one      *)
(* action of the model is the stretch of one request around one database   *)
(* statement: from the previous statement's completion to this one's.      *)
(***************************************************************************)
EXTENDS Integers, FiniteSets, Sequences, TLC

\* ------------------------------------------------------------------ bounds
MaxUsers == 2          \* distinct Telegram user ids that send requests
MaxReq   == 3          \* requests (HTTP calls or chat messages) per behaviour
SeedBoxes == 2         \* luckyboxes of the row found at start-up
SeedBalance == 7       \* balance of the row found at start-up

\* ------------------------------------------------------- program constants
MinWin == 1            \* randint(1, 1000), lower end
MaxWin == 1000         \* randint(1, 1000), upper end
DefaultLuckyboxes == 1 \* User.luckyboxes default
DefaultBalance == 0    \* User.balance default

Users == 1..MaxUsers
Slots == 1..MaxReq

\* event.from_user.username is None, "" or a handle.  None is written as a
\* string no Telegram handle can equal.
None == "<None>"
Usernames == {None, "", "alice"}

\* The Authorization header of an HTTP request: absent, present but empty,
\* present with a payload whose signature does not verify, or present with a
\* payload signed with the bot token for user uid.
Credentials ==
    {[header |-> "absent", uid |-> 1], [header |-> "empty", uid |-> 1]}
    \cup [header : {"tampered", "signed"}, uid : Users]

\* randint(1, 1000) returns any integer of this range, ends included.
RandintRange == MinWin..MaxWin

\* The draws the model enumerates: the two ends of the range.
WinSamples ==
    {w \in RandintRange :
        (\A v \in RandintRange : w <= v) \/ (\A v \in RandintRange : w >= v)}

VARIABLES
    store,      \* the User table: id -> row, for the ids that have a row
    version,    \* history: number of writes made to the row of each id
    seed,       \* history: the table as it was at start-up
    reqs        \* per request: position, inputs, locals and response

vars == <<store, version, seed, reqs>>

\* ------------------------------------------------------------ User rows
\* A row without its primary key (the key is the index into store).
Row(username, luckyboxes, balance) ==
    [username |-> username, luckyboxes |-> luckyboxes, balance |-> balance]

\* The new row as it would be with the two defaults exchanged.
NewRow_SwappedDefaults(username) ==
    Row(username, DefaultBalance, DefaultLuckyboxes)

\* User.create(id=..., username=...): the other fields take their defaults.
NewRow(username) == Row(username, DefaultLuckyboxes, DefaultBalance)

\* The Python value a coroutine holds after `await User.filter(id).first()`:
\* None (exists = FALSE) or a model instance carrying the row's fields.
NoUser == [exists |-> FALSE, username |-> None, luckyboxes |-> 0, balance |-> 0]
Instance(row) ==
    [exists |-> TRUE, username |-> row.username,
     luckyboxes |-> row.luckyboxes, balance |-> row.balance]

\* User.filter(id=uid).first()
First(table, uid) ==
    IF uid \in DOMAIN table THEN Instance(table[uid]) ELSE NoUser

\* The save as it would be if the UPDATE had no WHERE clause.
SaveRow_NoWhere(table, uid, user) ==
    [u \in DOMAIN table |->
        Row(user.username, user.luckyboxes, user.balance)]

\* user.save() of an instance loaded from the table: UPDATE of every
\* non-key column WHERE id = uid.
SaveRow(table, uid, user) ==
    [table EXCEPT ![uid] = Row(user.username, user.luckyboxes, user.balance)]

\* User.create(id=uid, username=username): INSERT.
InsertRow(table, uid, username) ==
    [u \in DOMAIN table \cup {uid} |->
        IF u = uid THEN NewRow(username) ELSE table[u]]

\* ------------------------------------------------------------ responses
NoResult == [kind |-> "none", win |-> 0, luckyboxes |-> 0, balance |-> 0]
Outcome(kind) == [NoResult EXCEPT !.kind = kind]
\* JSONResponse({"win", "current_luckyboxes", "current_balance"})
OpenResponse(win, user) ==
    [kind |-> "ok", win |-> win, luckyboxes |-> user.luckyboxes,
     balance |-> user.balance]
\* A response that carries a user (get_user's JSON, the handler's data["user"])
UserResponse(kind, user) ==
    [kind |-> kind, win |-> 0, luckyboxes |-> user.luckyboxes,
     balance |-> user.balance]

\* ------------------------------------------------------------ auth
\* auth as it would be if a payload were parsed without its signature check.
auth_TrustsUnsigned(cred) ==
    IF cred.header \in {"absent", "empty"}
    THEN [ok |-> FALSE, uid |-> 0]
    ELSE [ok |-> TRUE, uid |-> cred.uid]

\* auth(request): the identity of the payload, or HTTPException(401).
auth(cred) ==
    IF cred.header \in {"absent", "empty"}
    THEN [ok |-> FALSE, uid |-> 0]
    ELSE IF cred.header = "signed"
         THEN [ok |-> TRUE, uid |-> cred.uid]
         ELSE [ok |-> FALSE, uid |-> 0]

\* ------------------------------------------------------------ open_box
\* The update as it would be with `user.balance = win`.
Mutate_OverwritesBalance(user, win) ==
    [user EXCEPT !.luckyboxes = @ - 1, !.balance = win]

\* user.luckyboxes -= 1; user.balance += win
Mutate(user, win) ==
    [user EXCEPT !.luckyboxes = @ - 1, !.balance = @ + win]

\* ------------------------------------------------------------ requests
\* A request that has not arrived yet.  snap and ver are history: the row
\* the request loaded and the number of writes the row had seen by then.
IdleReq ==
    [pc |-> "idle", op |-> "none", uid |-> 0, cred |-> "none",
     username |-> None, win |-> 0, snap |-> NoUser, user |-> NoUser,
     ver |-> 0, created |-> FALSE, result |-> NoResult]

\* The coroutine returns: its locals are dropped, the response stays.
Finish(r, res) ==
    [r EXCEPT !.pc = "done", !.user = NoUser, !.win = 0, !.result = res]

\* The coroutine raises: nothing of what it held stays but the error.
Raise(r, kind) ==
    [Finish(r, Outcome(kind)) EXCEPT !.snap = NoUser, !.ver = 0]

\* Requests are taken from the slots in order.
CanStart(s) ==
    /\ reqs[s].pc = "idle"
    /\ \A t \in Slots : t < s => reqs[t].pc # "idle"

\* POST /api/open from its arrival to `await user.save()`: the auth
\* dependency, randint, the lookup and the two in-memory updates.  Only the
\* lookup touches the table, so the stretch is one step, taken when the
\* lookup executes.  On None, `user.luckyboxes` raises AttributeError, which
\* the server turns into a 500 response.
OpenLoad(s) ==
    /\ CanStart(s)
    /\ \E cred \in Credentials, win \in WinSamples, fails \in BOOLEAN :
         LET a == auth(cred)
             r == [reqs[s] EXCEPT !.op = "open", !.cred = cred.header,
                                  !.uid = a.uid]
             found == First(store, a.uid)
         IN  reqs' = [reqs EXCEPT ![s] =
                IF ~a.ok THEN Raise(r, "Unauthorized")
                ELSE IF fails THEN Raise(r, "StorageError")
                ELSE IF ~found.exists THEN Raise(r, "AttributeError")
                ELSE [r EXCEPT !.pc = "open_save", !.win = win,
                               !.snap = found, !.user = Mutate(found, win),
                               !.ver = version[a.uid]]]
    /\ UNCHANGED <<store, version, seed>>

\* The step as it would be if the save were started as a task and not
\* awaited: the response leaves before the write.
OpenSave_FireAndForget(s) ==
    /\ reqs[s].pc = "open_save"
    /\ reqs' = [reqs EXCEPT ![s] =
          Finish(reqs[s], OpenResponse(reqs[s].win, reqs[s].user))]
    /\ UNCHANGED <<store, version, seed>>

\* `await user.save()` completes, then the response is built from the
\* instance in memory.
OpenSave(s) ==
    /\ reqs[s].pc = "open_save"
    /\ LET r == reqs[s] IN
       /\ store' = SaveRow(store, r.uid, r.user)
       /\ version' = [version EXCEPT ![r.uid] = @ + 1]
       /\ reqs' = [reqs EXCEPT ![s] = Finish(r, OpenResponse(r.win, r.user))]
    /\ UNCHANGED seed

\* ------------------------------------------------------------ get_user
\* GET /api/user: the auth dependency, the lookup and the serialisation of
\* the row.  userpy.from_tortoise_orm raises on None, which the server turns
\* into a 500 response.
GetUser(s) ==
    /\ CanStart(s)
    /\ \E cred \in Credentials, fails \in BOOLEAN :
         LET a == auth(cred)
             r == [reqs[s] EXCEPT !.op = "get", !.cred = cred.header,
                                  !.uid = a.uid]
             found == First(store, a.uid)
         IN  reqs' = [reqs EXCEPT ![s] =
                IF ~a.ok THEN Raise(r, "Unauthorized")
                ELSE IF fails THEN Raise(r, "StorageError")
                ELSE IF ~found.exists THEN Raise(r, "AttributeError")
                ELSE Finish(r, UserResponse("user", found))]
    /\ UNCHANGED <<store, version, seed>>

\* ------------------------------------------------- UserMiddleware.__call__
\* The test as it would be with `username is None`.
UsernameMissing_OnlyNone(username) == username = None

\* `not event.from_user.username`
UsernameMissing(username) == username = None \/ username = ""

\* The test as it would be if the middleware always created the user.
NeedsCreate_Always(user) == TRUE

\* `if not user:` after the lookup
NeedsCreate(user) == ~user.exists

\* A chat message reaches the middleware.  Without a username the sender is
\* answered with the prompt and the handler is not called.  Otherwise the
\* lookup runs; when it finds the row, the row goes to the handler, which
\* answers the sender and touches no row.
BootFind(s) ==
    /\ CanStart(s)
    /\ \E uid \in Users, username \in Usernames, fails \in BOOLEAN :
         LET r == [reqs[s] EXCEPT !.op = "boot", !.uid = uid,
                                  !.username = username]
             found == First(store, uid)
         IN  reqs' = [reqs EXCEPT ![s] =
                IF UsernameMissing(username)
                THEN Raise(r, "SetUsernamePrompt")
                ELSE IF fails THEN Raise(r, "StorageError")
                ELSE IF NeedsCreate(found)
                THEN [r EXCEPT !.pc = "boot_create", !.snap = found,
                               !.ver = version[uid]]
                ELSE Finish([r EXCEPT !.snap = found, !.ver = version[uid]],
                            UserResponse("handled", found))]
    /\ UNCHANGED <<store, version, seed>>

\* The creation as it would be with an INSERT OR REPLACE.
BootCreate_Upsert(s) ==
    /\ reqs[s].pc = "boot_create"
    /\ LET r == reqs[s] IN
       /\ store' = InsertRow(store, r.uid, r.username)
       /\ version' = [version EXCEPT ![r.uid] = @ + 1]
       /\ reqs' = [reqs EXCEPT ![s] =
             Finish([r EXCEPT !.created = TRUE],
                    UserResponse("handled", Instance(NewRow(r.username))))]
    /\ UNCHANGED seed

\* `user = await User.create(...)` returns and the new row goes to the
\* handler.  The INSERT violates the primary key when a row with this id
\* exists by now; the IntegrityError is not caught.
BootCreate(s) ==
    /\ reqs[s].pc = "boot_create"
    /\ LET r == reqs[s] IN
       IF r.uid \in DOMAIN store
       THEN /\ reqs' = [reqs EXCEPT ![s] = Raise(r, "IntegrityError")]
            /\ UNCHANGED <<store, version>>
       ELSE /\ store' = InsertRow(store, r.uid, r.username)
            /\ version' = [version EXCEPT ![r.uid] = @ + 1]
            /\ reqs' = [reqs EXCEPT ![s] =
                  Finish([r EXCEPT !.created = TRUE],
                         UserResponse("handled", Instance(NewRow(r.username))))]
    /\ UNCHANGED seed

\* ------------------------------------------------------- storage failures
\* Positions at which a request is waiting for a write to the database.
AwaitingWrite == {"open_save", "boot_create"}

\* The failure as it would be if the handler caught the exception of the
\* write and went on to answer from the instance in memory.
StorageFail_Swallowed(s) ==
    /\ reqs[s].pc \in AwaitingWrite
    /\ reqs' = [reqs EXCEPT ![s] =
          Finish(reqs[s], OpenResponse(reqs[s].win, reqs[s].user))]
    /\ UNCHANGED <<store, version, seed>>

\* The awaited write raises (connection lost, ...).  No handler catches it:
\* the statement has no effect on the table and the request ends with an
\* error; the history of what it had loaded stays.  (A lookup that raises is
\* the `fails` case of the steps above.)
StorageFail(s) ==
    /\ reqs[s].pc \in AwaitingWrite
    /\ reqs' = [reqs EXCEPT ![s] = Finish(reqs[s], Outcome("StorageError"))]
    /\ UNCHANGED <<store, version, seed>>

\* ------------------------------------------------------------ the system
EmptyTable == [u \in {} |-> NewRow(None)]

\* A table a start-up can find in the database at DB_URL: a row of an
\* earlier run for user 1, with a box count granted outside this program.
SeedTables ==
    {[u \in {1} |-> Row("alice", SeedBoxes, SeedBalance)]}

InitWith(table) ==
    /\ store = table
    /\ version = [u \in Users |-> 0]
    /\ seed = table
    /\ reqs = [s \in Slots |-> IdleReq]

\* A fresh database: generate_schemas() creates an empty table.
Init == InitWith(EmptyTable)

\* A database that already holds rows.
InitSeeded == \E table \in SeedTables : InitWith(table)

Next ==
    \E s \in Slots :
        \/ OpenLoad(s)
        \/ OpenSave(s)
        \/ GetUser(s)
        \/ BootFind(s)
        \/ BootCreate(s)
        \/ StorageFail(s)

Spec == Init /\ [][Next]_vars

SpecSeeded == InitSeeded /\ [][Next]_vars

\* The event loop resumes a coroutine once the statement it awaits has
\* completed or raised, and the database answers every statement.
Fairness ==
    \A s \in Slots :
        /\ WF_vars(OpenSave(s) \/ StorageFail(s))
        /\ WF_vars(BootCreate(s) \/ StorageFail(s))

SpecFair == Init /\ [][Next]_vars /\ Fairness

\* ------------------------------------------------------------ vocabulary
Done(s) == reqs[s].pc = "done"

\* The open_box calls made with a valid credential of user u.
OpenCalls(u) == {s \in Slots : reqs[s].op = "open" /\ reqs[s].uid = u}

\* The open_box calls of user u that returned a success response.
OpenSuccesses(u) == {s \in OpenCalls(u) : reqs[s].result.kind = "ok"}

RECURSIVE SumWins(_)
SumWins(S) ==
    IF S = {} THEN 0
    ELSE LET s == CHOOSE x \in S : TRUE IN
         reqs[s].result.win + SumWins(S \ {s})

\* ------------------------------------------------------------ C1
\* All the open_box calls of user u have returned, there are as many of them
\* as the row had boxes at start-up, and the database failed none of them.
AllBoxesOpened(u) ==
    /\ u \in DOMAIN seed
    /\ Cardinality(OpenCalls(u)) = seed[u].luckyboxes
    /\ \A s \in OpenCalls(u) : Done(s) /\ reqs[s].result.kind # "StorageError"

\* C1: when N open_box calls are made, in any interleaving, for a user whose
\* row starts with luckyboxes = N, all N succeed, the stored luckyboxes ends
\* at 0 and the stored balance is the starting balance plus the sum of the N
\* wins returned.
C1_NoLostUpdate ==
    \A u \in Users :
        AllBoxesOpened(u) =>
            /\ OpenSuccesses(u) = OpenCalls(u)
            /\ store[u].luckyboxes = 0
            /\ store[u].balance = seed[u].balance + SumWins(OpenCalls(u))

\* ------------------------------------------------------------ C2
\* C2: load -> mutate -> persist is serialized per user: no two open_box
\* calls of one user load the same state of the row (hence the same
\* luckyboxes) and both persist a decrement computed from it.
C2_Serialized ==
    \A s, t \in Slots :
        (/\ s # t
         /\ reqs[s].op = "open" /\ reqs[t].op = "open"
         /\ reqs[s].uid = reqs[t].uid
         /\ reqs[s].result.kind = "ok" /\ reqs[t].result.kind = "ok")
        => ~(/\ reqs[s].ver = reqs[t].ver
             /\ reqs[s].snap.luckyboxes = reqs[t].snap.luckyboxes)

\* ------------------------------------------------------------ C3
\* C3: every stored row has luckyboxes >= 0, after any sequence of chat
\* messages, get_user and open_box calls.
C3_NonNegativeBoxes ==
    \A u \in DOMAIN store : store[u].luckyboxes >= 0

\* ------------------------------------------------------------ C4
\* C4: an open_box call that loads a row with luckyboxes <= 0 fails with
\* NoBoxesAvailableError and leaves the stored row unchanged.
C4_NoBoxesRefused ==
    [][\A s \in Slots :
         (/\ reqs[s].pc = "open_save"
          /\ reqs[s].snap.luckyboxes <= 0
          /\ reqs'[s].pc = "done"
          /\ reqs'[s].result.kind # "StorageError")
         => /\ reqs'[s].result.kind = "NoBoxesAvailableError"
            /\ store' = store]_vars

\* ------------------------------------------------------------ C5
\* The step in which the open_box call s persists and answers, no other
\* write having reached the row since s loaded it.
SavesInIsolation(s) ==
    /\ reqs[s].pc = "open_save"
    /\ reqs'[s].result.kind = "ok"
    /\ reqs[s].ver = version[reqs[s].uid]

\* C5: an open_box call that runs in isolation on a row with luckyboxes =
\* b >= 1 and balance = c draws 1 <= win <= 1000, stores luckyboxes = b - 1
\* and balance = c + win, and returns exactly {win, b - 1, c + win}.
C5_OpenBoxResult ==
    [][\A s \in Slots :
         (SavesInIsolation(s) /\ store[reqs[s].uid].luckyboxes >= 1)
         => LET u == reqs[s].uid
                b == store[u].luckyboxes
                c == store[u].balance
                res == reqs'[s].result
            IN  /\ res.win \in 1..1000
                /\ store'[u].luckyboxes = b - 1
                /\ store'[u].balance = c + res.win
                /\ res.luckyboxes = b - 1
                /\ res.balance = c + res.win]_vars

\* An open_box call on the row found at start-up has returned the largest win,
\* and the stored row is what it returned.
C5_Witness ==
    \E s \in Slots :
        /\ reqs[s].result.kind = "ok"
        /\ reqs[s].snap.luckyboxes = SeedBoxes
        /\ reqs[s].snap.balance = SeedBalance
        /\ reqs[s].result.win = 1000
        /\ reqs[s].result.luckyboxes = SeedBoxes - 1
        /\ reqs[s].result.balance = SeedBalance + 1000
        /\ store[reqs[s].uid].luckyboxes = SeedBoxes - 1
        /\ store[reqs[s].uid].balance = SeedBalance + 1000

\* ------------------------------------------------------------ C6
\* C6: no step lowers the stored balance of a user.
C6_BalanceMonotonic ==
    [][\A u \in DOMAIN store : store'[u].balance >= store[u].balance]_vars

\* ------------------------------------------------------------ C7
\* C7: a request to the reward endpoint without a credential, or with one
\* that fails verification, is answered Unauthorized at once and neither
\* loads, creates nor changes a row.
C7_UnauthorizedNoEffect ==
    [][\A s \in Slots :
         (/\ reqs[s].pc = "idle"
          /\ reqs'[s].op = "open"
          /\ reqs'[s].cred \in {"absent", "empty", "tampered"})
         => /\ reqs'[s].pc = "done"
            /\ reqs'[s].result = Outcome("Unauthorized")
            /\ reqs'[s].snap = NoUser
            /\ store' = store
            /\ version' = version]_vars

\* A tampered credential was refused while the table held an opened row.
C7_Witness ==
    \E s \in Slots :
        /\ reqs[s].op = "open"
        /\ reqs[s].cred = "tampered"
        /\ reqs[s].result.kind = "Unauthorized"
        /\ \E u \in DOMAIN store : store[u].luckyboxes = 0

\* ------------------------------------------------------------ C8
\* C8: open_box for an authenticated user without a row fails with
\* NotFoundError and creates or changes no row.
C8_NotFound ==
    [][\A s \in Slots :
         (/\ reqs[s].pc = "idle"
          /\ reqs'[s].op = "open"
          /\ reqs'[s].cred = "signed"
          /\ reqs'[s].uid \notin DOMAIN store
          /\ reqs'[s].result.kind # "StorageError")
         => /\ reqs'[s].result.kind = "NotFoundError"
            /\ store' = store]_vars

\* ------------------------------------------------------------ C9
\* A chat message of user u has been through the middleware and its handler.
Bootstrapped(u) ==
    \E s \in Slots :
        reqs[s].op = "boot" /\ reqs[s].uid = u /\ reqs[s].result.kind = "handled"

\* C9: once a bootstrap of a user has completed, a further bootstrap of that
\* user (whatever open_box calls ran in between) finds the row, creates
\* nothing, writes nothing and hands the handler the row as stored, not a row
\* reset to the defaults.
C9_BootstrapIdempotent ==
    [][\A t \in Slots :
         (/\ reqs[t].pc = "idle"
          /\ reqs'[t].op = "boot"
          /\ reqs'[t].username \notin {None, ""}
          /\ reqs'[t].result.kind # "StorageError"
          /\ Bootstrapped(reqs'[t].uid))
         => LET u == reqs'[t].uid IN
            /\ u \in DOMAIN store
            /\ reqs'[t].pc = "done"
            /\ reqs'[t].result.kind = "handled"
            /\ reqs'[t].result.luckyboxes = store[u].luckyboxes
            /\ reqs'[t].result.balance = store[u].balance
            /\ ~reqs'[t].created
            /\ store' = store
            /\ version' = version]_vars

\* Two bootstraps of one user with an open_box between them: the first
\* created the row, the second returned it with the box opened.
C9_Witness ==
    \E s, t \in Slots :
        /\ s # t
        /\ reqs[s].op = "boot" /\ reqs[t].op = "boot"
        /\ reqs[s].uid = reqs[t].uid
        /\ reqs[s].result.kind = "handled" /\ reqs[s].created
        /\ reqs[t].result.kind = "handled" /\ ~reqs[t].created
        /\ reqs[t].result.luckyboxes = 0
        /\ reqs[t].result.balance = 1000
        /\ store[reqs[t].uid] = Row("alice", 0, 1000)

\* ------------------------------------------------------------ C10
\* C10: a chat message whose sender has no username, or an empty one, is
\* answered with the prompt: no row is read, created or changed and the
\* handler is not called.
C10_UsernameRequired ==
    [][\A s \in Slots :
         (/\ reqs[s].pc = "idle"
          /\ reqs'[s].op = "boot"
          /\ reqs'[s].username \in {None, ""})
         => /\ reqs'[s].pc = "done"
            /\ reqs'[s].result = Outcome("SetUsernamePrompt")
            /\ reqs'[s].snap = NoUser
            /\ ~reqs'[s].created
            /\ store' = store
            /\ version' = version]_vars

\* A message with an empty username was answered with the prompt and its
\* sender has no row.
C10_Witness ==
    \E s \in Slots :
        /\ reqs[s].op = "boot"
        /\ reqs[s].username = ""
        /\ reqs[s].result.kind = "SetUsernamePrompt"
        /\ reqs[s].uid \notin DOMAIN store

\* ------------------------------------------------------------ C11
\* The step in which request t executes its lookup and finds a row.
Loads(t) ==
    /\ reqs[t].pc = "idle"
    /\ reqs'[t].uid \in DOMAIN store
    /\ reqs'[t].pc = "open_save" \/ reqs'[t].result.kind \in {"user", "handled"}

\* What request t holds of the row after its lookup.
Loaded(t) ==
    IF reqs'[t].pc = "open_save"
    THEN <<reqs'[t].snap.luckyboxes, reqs'[t].snap.balance>>
    ELSE <<reqs'[t].result.luckyboxes, reqs'[t].result.balance>>

\* C11: when the save of an open_box call fails after the in-memory update
\* (the call ends without a write to the row), the call ends with the error
\* and no success response, the stored row keeps its values, the updated
\* instance is dropped, and every lookup returns the stored values.
C11_AllOrNothing ==
    [][/\ \A s \in Slots :
            (/\ reqs[s].pc = "open_save"
             /\ reqs'[s].pc = "done"
             /\ version' = version)
            => /\ reqs'[s].result = Outcome("StorageError")
               /\ reqs'[s].user = NoUser
               /\ store' = store
       /\ \A s \in Slots :
            (/\ reqs[s].pc = "open_save"
             /\ reqs'[s].result.kind = "StorageError")
            => store' = store /\ version' = version
       /\ \A t \in Slots :
            Loads(t) =>
                Loaded(t) = <<store[reqs'[t].uid].luckyboxes,
                              store[reqs'[t].uid].balance>>]_vars

\* An open_box call loaded the new row, its save failed, and a later
\* get_user returned the row with its box and an empty balance.
C11_Witness ==
    \E s, t \in Slots :
        /\ s < t
        /\ reqs[s].op = "open"
        /\ reqs[s].result.kind = "StorageError"
        /\ reqs[s].snap.exists /\ reqs[s].snap.luckyboxes = 1
        /\ reqs[t].op = "get" /\ reqs[t].uid = reqs[s].uid
        /\ reqs[t].result.kind = "user"
        /\ reqs[t].result.luckyboxes = 1
        /\ reqs[t].result.balance = 0
        /\ store[reqs[s].uid] = NewRow("alice")

\* ------------------------------------------------------------ C12
\* The row of user u before any open_box call: the one found at start-up, or
\* the one the middleware creates.
FirstRow(u) == IF u \in DOMAIN seed THEN seed[u] ELSE NewRow("alice")

\* C12: the save of an open_box call of user A changes no row of another
\* user, adds and removes no row and keeps A's username; and when it is the
\* only open_box call of A, the row it leaves is the one a run of that call
\* alone leaves, whatever calls of other users are interleaved with it.
C12_OtherUsersUntouched ==
    [][\A s \in Slots :
         (reqs[s].pc = "open_save" /\ reqs'[s].result.kind = "ok")
         => LET a == reqs[s].uid IN
            /\ DOMAIN store' = DOMAIN store
            /\ \A u \in DOMAIN store \ {a} : store'[u] = store[u]
            /\ store'[a].username = store[a].username
            /\ reqs'[s].uid = a
            /\ OpenCalls(a) = {s}
               => store'[a] = Row(FirstRow(a).username,
                                  FirstRow(a).luckyboxes - 1,
                                  FirstRow(a).balance + reqs'[s].result.win)]_vars

\* An open_box call of one user has loaded, been overtaken by a whole
\* open_box call of another user, and has not saved yet; the other user's row
\* holds what that call returned.
C12_Witness ==
    \E s, t \in Slots :
        /\ t < s
        /\ reqs[t].op = "open" /\ reqs[t].pc = "open_save"
        /\ reqs[s].op = "open" /\ reqs[s].result.kind = "ok"
        /\ reqs[s].uid # reqs[t].uid
        /\ store[reqs[s].uid].luckyboxes = reqs[s].result.luckyboxes
        /\ store[reqs[s].uid].balance = reqs[s].result.balance
        /\ store[reqs[t].uid].luckyboxes = reqs[t].snap.luckyboxes
        /\ store[reqs[t].uid].balance = reqs[t].snap.balance

\* ------------------------------------------------------------ C13
\* The step is the successful save of an open_box call of user u.
OpenBoxSaves(u) ==
    \E s \in Slots :
        /\ reqs[s].pc = "open_save"
        /\ reqs[s].uid = u
        /\ reqs'[s].result.kind = "ok"

\* The step belongs to a get_user call or to a chat message.
GetOrBootSteps ==
    \E s \in Slots :
        /\ reqs'[s] # reqs[s]
        /\ reqs'[s].op \in {"get", "boot"}

\* C13: no step removes a row; a step that changes the luckyboxes or the
\* balance of an existing row is the save of an open_box call of that user;
\* get_user and the middleware leave every existing row as it is.
C13_OnlyOpenBoxMutates ==
    [][/\ DOMAIN store \subseteq DOMAIN store'
       /\ \A u \in DOMAIN store :
            (\/ store'[u].luckyboxes # store[u].luckyboxes
             \/ store'[u].balance # store[u].balance)
            => OpenBoxSaves(u)
       /\ GetOrBootSteps => \A u \in DOMAIN store : store'[u] = store[u]]_vars

\* After an open_box call, get_user and a chat message of the same user both
\* returned the row as the call left it, and the row is still that.
C13_Witness ==
    \E o, g, b \in Slots :
        /\ o < g /\ o < b
        /\ reqs[o].op = "open" /\ reqs[o].result.kind = "ok"
        /\ reqs[g].op = "get" /\ reqs[g].result.kind = "user"
        /\ reqs[b].op = "boot" /\ reqs[b].result.kind = "handled"
        /\ reqs[g].uid = reqs[o].uid /\ reqs[b].uid = reqs[o].uid
        /\ ~reqs[b].created
        /\ \A x \in {g, b} :
              /\ reqs[x].result.luckyboxes = reqs[o].result.luckyboxes
              /\ reqs[x].result.balance = reqs[o].result.balance
        /\ store[reqs[o].uid].luckyboxes = reqs[o].result.luckyboxes
        /\ store[reqs[o].uid].balance = reqs[o].result.balance

\* ------------------------------------------------------------ C14
\* C14: a row is added only by a chat message whose lookup found no row for
\* the sender's id; the new row is stored under that id with the sender's
\* username, luckyboxes = 1 and balance = 0, and that row goes to the handler.
C14_CreatedWithDefaults ==
    [][\A u \in DOMAIN store' \ DOMAIN store :
         \E s \in Slots :
            /\ reqs[s].op = "boot"
            /\ reqs[s].pc = "boot_create"
            /\ reqs[s].uid = u
            /\ ~reqs[s].snap.exists
            /\ reqs[s].username \notin {None, ""}
            /\ store'[u].username = reqs[s].username
            /\ store'[u].luckyboxes = 1
            /\ store'[u].balance = 0
            /\ reqs'[s].created
            /\ reqs'[s].result.kind = "handled"
            /\ reqs'[s].result.luckyboxes = 1
            /\ reqs'[s].result.balance = 0
            /\ \A v \in DOMAIN store : store'[v] = store[v]]_vars

\* A chat message of a user without a row created the row with the defaults.
C14_Witness ==
    \E s \in Slots :
        /\ reqs[s].op = "boot"
        /\ reqs[s].created
        /\ reqs[s].result.kind = "handled"
        /\ reqs[s].username = "alice"
        /\ store[reqs[s].uid] = Row("alice", 1, 0)

\* ------------------------------------------------------------ C15
\* C15: an open_box call returns a success response only in the step in
\* which its save completes, so that the table then holds the row the
\* response describes; and every open_box call that has started returns a
\* response or an error.
C15_SaveAwaited ==
    /\ [][\A s \in Slots :
            (/\ reqs[s].pc # "done"
             /\ reqs'[s].op = "open"
             /\ reqs'[s].result.kind = "ok")
            => LET u == reqs'[s].uid IN
               /\ reqs[s].pc = "open_save"
               /\ version'[u] = version[u] + 1
               /\ store'[u].luckyboxes = reqs'[s].result.luckyboxes
               /\ store'[u].balance = reqs'[s].result.balance]_vars
    /\ \A s \in Slots : (reqs[s].op = "open") ~> (reqs[s].pc = "done")

\* An open_box call has returned a success response and the row is the one
\* written by it.
C15_Witness ==
    \E s \in Slots :
        /\ reqs[s].op = "open"
        /\ reqs[s].result.kind = "ok"
        /\ version[reqs[s].uid] = reqs[s].ver + 1
        /\ store[reqs[s].uid].luckyboxes = reqs[s].result.luckyboxes
        /\ store[reqs[s].uid].balance = reqs[s].result.balance

\* ------------------------------------------------------------ C16
\* The chat messages of user u that got past the username test.
BootCalls(u) ==
    {s \in Slots : /\ reqs[s].op = "boot"
                   /\ reqs[s].uid = u
                   /\ reqs[s].username \notin {None, ""}}

\* C16: when two chat messages of a user without a row are handled
\* concurrently and the database fails neither, both end by handing the
\* handler the one row of that user.
C16_ConcurrentBootstrap ==
    \A u \in Users :
        \A s, t \in BootCalls(u) :
            (/\ s # t
             /\ Done(s) /\ Done(t)
             /\ reqs[s].result.kind # "StorageError"
             /\ reqs[t].result.kind # "StorageError")
            => /\ u \in DOMAIN store
               /\ reqs[s].result.kind = "handled"
               /\ reqs[t].result.kind = "handled"

\* ------------------------------------------------------------ C17
\* C17: for every user with a row, the number of open_box calls that returned
\* success plus the stored luckyboxes is 1, the luckyboxes of a new row, and
\* the stored balance is the sum of the wins of those calls, hence between k
\* and 1000 * k after k successes.
C17_Accounting ==
    \A u \in DOMAIN store :
        LET k == Cardinality(OpenSuccesses(u)) IN
        /\ k + store[u].luckyboxes = 1
        /\ store[u].balance = SumWins(OpenSuccesses(u))
        /\ k <= store[u].balance
        /\ store[u].balance <= 1000 * k
====
